---- MODULE Spec2Model ----
(***************************************************************************)
(* Model of src/src/utils/prismaClient.ts: the singleton client handle     *)
(* (getPrismaClient / disconnectPrismaClient / shutdown handlers), the     *)
(* table-name validation and delegate lookup (isValidModel / getDelegate), *)
(* the CRUD helpers, findManyRecords' pagination arithmetic,               *)
(* executeTransaction and executeRawQuery.                                 *)
(*                                                                         *)
(* Strings are sequences of one-character strings so that toLowerCase and  *)
(* property lookup are computed, not assumed.  JavaScript objects with     *)
(* optional keys are functions whose DOMAIN holds the keys that are set;   *)
(* an omitted (undefined) argument is an absent key, or <<>> for a         *)
(* positional parameter.                                                   *)
(***************************************************************************)
EXTENDS Integers, Sequences, FiniteSets, TLC

VARIABLES
    db,              \* the data store: delegate key -> set of committed rows
    last,            \* the most recent helper invocation and its outcome
    prev,            \* the invocation before it, when it was the same call
    prismaInstance,  \* the singleton slot (0 is null, else a client id)
    prisma,          \* the module-level const prisma (a client id)
    constructed,     \* number of PrismaClient constructor invocations
    discCalls,       \* client id -> number of $disconnect invocations
    disconnected,    \* client id -> $disconnect has completed on it
    inv,             \* invocations of disconnectPrismaClient
    exited,          \* process.exit has been called
    lastGot,         \* the value the last getPrismaClient call returned
    lastUsed         \* the client the last raw-query helper operated on

dataVars == <<db, last, prev>>
lifeVars == <<prismaInstance, prisma, constructed, discCalls, disconnected,
              inv, exited, lastGot, lastUsed>>
vars == <<db, last, prev, prismaInstance, prisma, constructed, discCalls,
          disconnected, inv, exited, lastGot, lastUsed>>

----------------------------------------------------------------------------
(* Bounds of the model *)

MaxKey == 2
MaxVal == 2
MaxListLen == 2
MaxNum == 2
MaxSteps == 2
MaxClients == 3
MaxInvocations == 3

----------------------------------------------------------------------------
(* Strings and String.prototype.toLowerCase *)

UpperChars == <<"A","B","C","D","E","F","G","H","I","J","K","L","M",
                "N","O","P","Q","R","S","T","U","V","W","X","Y","Z">>
LowerChars == <<"a","b","c","d","e","f","g","h","i","j","k","l","m",
                "n","o","p","q","r","s","t","u","v","w","x","y","z">>

LowerOf ==
    [c \in {UpperChars[i] : i \in 1..Len(UpperChars)} |->
        LowerChars[CHOOSE i \in 1..Len(UpperChars) : UpperChars[i] = c]]

ToLowerChar(c) == IF c \in DOMAIN LowerOf THEN LowerOf[c] ELSE c

toLowerCase(s) == [i \in 1..Len(s) |-> ToLowerChar(s[i])]

\* The property name the generated Prisma client gives a model's delegate:
\* the model name with its first letter lower-cased (tx.user in the
\* executeTransaction example; FileVersion is exposed as fileVersion).
lowerFirst(s) == [i \in 1..Len(s) |-> IF i = 1 THEN ToLowerChar(s[i]) ELSE s[i]]

User == <<"U","s","e","r">>
Folder == <<"F","o","l","d","e","r">>
File == <<"F","i","l","e">>
FileVersion == <<"F","i","l","e","V","e","r","s","i","o","n">>
Share == <<"S","h","a","r","e">>

VALID_MODELS == <<User, Folder, File, FileVersion, Share>>

ModelSet == {VALID_MODELS[i] : i \in 1..Len(VALID_MODELS)}

isValidModelAnyCase(tableName) ==
    \E i \in 1..Len(VALID_MODELS) :
        toLowerCase(VALID_MODELS[i]) = toLowerCase(tableName)

\* Array.prototype.includes: strict equality against each element.
isValidModel(tableName) ==
    \E i \in 1..Len(VALID_MODELS) : VALID_MODELS[i] = tableName

\* The delegates the client object carries, by property name.
DelegateKeys == {lowerFirst(m) : m \in ModelSet}

Undefined == <<"u","n","d","e","f","i","n","e","d","!">>

\* (prisma as any)[key]: the delegate under that property, else undefined.
ClientProperty(key) == IF key \in DelegateKeys THEN key ELSE Undefined

NoError == [name |-> "none"]

\* delegate.method(...) on an undefined delegate.
TypeError == [name |-> "TypeError"]

PrismaError(code) == [name |-> "PrismaClientKnownRequestError", code |-> code]

InvalidModelError(tableName) ==
    [name |-> "Error", message |-> "Invalid model name", input |-> tableName,
     valid |-> VALID_MODELS]

\* getDelegate: throws for a name outside VALID_MODELS, else returns the
\* client property named by the lower-cased table name.
getDelegate(tableName) ==
    IF ~isValidModel(tableName)
    THEN [threw |-> TRUE, error |-> InvalidModelError(tableName),
          delegate |-> Undefined]
    ELSE [threw |-> FALSE, error |-> NoError,
          delegate |-> ClientProperty(toLowerCase(tableName))]

----------------------------------------------------------------------------
(* Records, and the delegate operations the helpers call.  A table holds   *)
(* rows [k, v]; k carries a uniqueness constraint.                         *)

Keys == 1..MaxKey
Vals == 1..MaxVal
Rows == [k : Keys, v : Vals]

EmptyObj == [x \in {} |-> 0]

\* Objects over the fields k and v, any of which may be absent.
DataObjs(ks, vs) ==
    {EmptyObj} \cup {"k" :> a : a \in ks} \cup {"v" :> b : b \in vs}
               \cup {("k" :> a) @@ ("v" :> b) : a \in ks, b \in vs}

Has(o, f) == f \in DOMAIN o

IsComplete(d) == Has(d, "k") /\ Has(d, "v")
Row(d) == [k |-> d["k"], v |-> d["v"]]
HasKey(rows, key) == \E r \in rows : r.k = key
Matches(r, w) == \A f \in DOMAIN w : r[f] = w[f]
Matching(rows, w) == {r \in rows : Matches(r, w)}
Patch(r, d) ==
    [k |-> IF Has(d, "k") THEN d["k"] ELSE r.k,
     v |-> IF Has(d, "v") THEN d["v"] ELSE r.v]

Ok(rows, outcome) ==
    [status |-> "ok", error |-> NoError, rows |-> rows, outcome |-> outcome]
Rejected(rows, code) ==
    [status |-> "rejected", error |-> PrismaError(code), rows |-> rows,
     outcome |-> "none"]

PrismaCreate(rows, d) ==
    IF ~IsComplete(d) THEN Rejected(rows, "validation")
    ELSE IF HasKey(rows, d["k"]) THEN Rejected(rows, "unique")
    ELSE Ok(rows \cup {Row(d)}, "created")

PrismaCreateMany(rows, items, skipDuplicates) ==
    LET n == Len(items)
        fresh(i) == /\ ~HasKey(rows, items[i]["k"])
                    /\ \A j \in 1..(i-1) : items[j]["k"] # items[i]["k"]
    IN  IF \E i \in 1..n : ~IsComplete(items[i])
        THEN Rejected(rows, "validation")
        ELSE IF skipDuplicates
        THEN Ok(rows \cup {Row(items[i]) : i \in {j \in 1..n : fresh(j)}},
                "createdMany")
        ELSE IF \E i \in 1..n : ~fresh(i)
        THEN Rejected(rows, "unique")
        ELSE Ok(rows \cup {Row(items[i]) : i \in 1..n}, "createdMany")

PrismaUpdate(rows, w, d) ==
    LET m == Matching(rows, w)
    IN  IF m = {} THEN Rejected(rows, "notFound")
        ELSE LET r == CHOOSE x \in m : TRUE
                 nr == Patch(r, d)
             IN  IF nr.k # r.k /\ HasKey(rows, nr.k)
                 THEN Rejected(rows, "unique")
                 ELSE Ok((rows \ {r}) \cup {nr}, "updated")

PrismaUpsert(rows, w, u, c) ==
    IF Matching(rows, w) # {} THEN PrismaUpdate(rows, w, u)
    ELSE PrismaCreate(rows, c)

PrismaDelete(rows, w) ==
    LET m == Matching(rows, w)
    IN  IF m = {} THEN Rejected(rows, "notFound")
        ELSE Ok(rows \ m, "deleted")

PrismaUpdateMany(rows, w, d) ==
    LET m == Matching(rows, w)
        rest == rows \ m
        new == {Patch(r, d) : r \in m}
    IN  IF \/ Cardinality(new) < Cardinality(m)
           \/ \E a \in new : HasKey(rest, a.k)
           \/ \E a \in new, b \in new : a # b /\ a.k = b.k
        THEN Rejected(rows, "unique")
        ELSE Ok(rest \cup new, "updatedMany")

PrismaDeleteMany(rows, w) == Ok(rows \ Matching(rows, w), "deletedMany")

\* The effect of one delegate call on its table.
ApplyCall(rows, method, args) ==
    CASE method = "create" -> PrismaCreate(rows, args["data"])
      [] method = "createMany" ->
            PrismaCreateMany(rows, args["data"], args["skipDuplicates"])
      [] method = "update" -> PrismaUpdate(rows, args["where"], args["data"])
      [] method = "upsert" ->
            PrismaUpsert(rows, args["where"], args["update"], args["create"])
      [] method = "delete" -> PrismaDelete(rows, args["where"])
      [] method = "updateMany" ->
            PrismaUpdateMany(rows, args["where"], args["data"])
      [] method = "deleteMany" -> PrismaDeleteMany(rows, args["where"])
      [] OTHER -> Ok(rows, "read")

----------------------------------------------------------------------------
(* The helpers: the delegate call each one builds from its arguments.      *)

Get(o, f) == IF Has(o, f) THEN <<o[f]>> ELSE <<>>

\* JavaScript truthiness of a numeric option: set and not 0.
Truthy(o, f) == Has(o, f) /\ o[f] # 0

\* ...(x !== undefined && { f: x }) and, for objects, ...(x && { f: x })
Spread(f, opt) == IF opt # <<>> THEN f :> opt[1] ELSE EmptyObj

\* A parameter with a default value.
Default(opt, dflt) == IF opt = <<>> THEN dflt ELSE opt[1]

Query(method, args) == [method |-> method, args |-> args]

insertRecordQuery(data, skipOpt) ==
    LET skipDuplicates == Default(skipOpt, TRUE)
    IN  IF data.isArray
        THEN Query("createMany",
                   [data |-> data.items, skipDuplicates |-> skipDuplicates])
        ELSE Query("create", [data |-> data.items[1]])

findRecordQuery(query, select) ==
    Query("findUnique", ("where" :> query) @@ Spread("select", select))

calculatedSkip(o) ==
    IF Truthy(o, "page") /\ Truthy(o, "perPage")
    THEN <<(o["page"] - 1) * o["perPage"]>>
    ELSE Get(o, "skip")

calculatedTakeTruthyTake(o) ==
    IF Truthy(o, "take") THEN <<o["take"]>> ELSE Get(o, "perPage")

calculatedTake(o) ==
    IF Truthy(o, "perPage") THEN <<o["perPage"]>> ELSE Get(o, "take")

findManyRecordsQuery(options) ==
    LET o == Default(options, EmptyObj)
    IN  Query("findMany",
              Spread("where", Get(o, "where"))
              @@ Spread("select", Get(o, "select"))
              @@ Spread("orderBy", Get(o, "orderBy"))
              @@ Spread("skip", calculatedSkip(o))
              @@ Spread("take", calculatedTake(o)))

updateRecordQuery(query, data) ==
    Query("update", [where |-> query, data |-> data])

upsertRecordQuery(query, dataUpdate, dataCreate) ==
    Query("upsert",
          [where |-> query, update |-> dataUpdate,
           create |-> Default(dataCreate, dataUpdate)])

deleteRecordQuery(query) == Query("delete", [where |-> query])

countRecordsQuery(where) == Query("count", Spread("where", where))

findFirstRecordQuery(options) ==
    LET o == Default(options, EmptyObj)
    IN  Query("findFirst",
              Spread("where", Get(o, "where"))
              @@ Spread("select", Get(o, "select"))
              @@ Spread("orderBy", Get(o, "orderBy")))

updateManyRecordsQuery(where, data) ==
    Query("updateMany", [where |-> where, data |-> data])

deleteManyRecordsQuery(where) == Query("deleteMany", [where |-> where])

----------------------------------------------------------------------------
(* One helper invocation: getDelegate, then the call on the delegate.      *)

NoCall == [delegate |-> Undefined, method |-> "none", args |-> EmptyObj]

\* pre: how many rows of the named model's table matched the invocation's
\* filter when it started (a history field, read by no helper).
NoInvocation ==
    [op |-> "none", table |-> <<>>, input |-> <<>>, pre |-> 0,
     status |-> "none", error |-> NoError, call |-> NoCall,
     outcome |-> "none"]

Invocation(op, t, input, pre, status, error, call, outcome) ==
    [op |-> op, table |-> t, input |-> input, pre |-> pre,
     status |-> status, error |-> error, call |-> call, outcome |-> outcome]

\* The rows of the table a model name denotes in the store.
TableOf(store, t) == IF t \in ModelSet THEN store[lowerFirst(t)] ELSE {}

MatchedBefore(t, w) == Cardinality(Matching(TableOf(db, t), w))

SameCall(l, op, t, input) == l.op = op /\ l.table = t /\ l.input = input

Invoke(op, tableName, input, w, q) ==
    \E g \in {getDelegate(tableName)}, pre \in {MatchedBefore(tableName, w)} :
        /\ IF g.threw
           THEN /\ last' = Invocation(op, tableName, input, pre, "threw",
                                      g.error, NoCall, "none")
                /\ db' = db
           ELSE IF g.delegate = Undefined
           THEN /\ last' = Invocation(op, tableName, input, pre, "threw",
                                      TypeError, NoCall, "none")
                /\ db' = db
           ELSE \E r \in {ApplyCall(db[g.delegate], q.method, q.args)} :
                    /\ last' = Invocation(op, tableName, input, pre, r.status,
                                          r.error,
                                          [delegate |-> g.delegate,
                                           method |-> q.method,
                                           args |-> q.args],
                                          r.outcome)
                    /\ db' = [db EXCEPT ![g.delegate] = r.rows]
        /\ prev' = IF SameCall(last, op, tableName, input)
                   THEN last ELSE NoInvocation
        /\ UNCHANGED lifeVars

insertRecord(tableName, data, skipOpt) ==
    Invoke("insertRecord", tableName, <<data, skipOpt>>, EmptyObj,
           insertRecordQuery(data, skipOpt))

findRecord(tableName, query, select) ==
    Invoke("findRecord", tableName, <<query, select>>, query,
           findRecordQuery(query, select))

findManyRecords(tableName, options) ==
    Invoke("findManyRecords", tableName, <<options>>, EmptyObj,
           findManyRecordsQuery(options))

updateRecord(tableName, query, data) ==
    Invoke("updateRecord", tableName, <<query, data>>, query,
           updateRecordQuery(query, data))

upsertRecord(tableName, query, dataUpdate, dataCreate) ==
    Invoke("upsertRecord", tableName, <<query, dataUpdate, dataCreate>>,
           query,
           upsertRecordQuery(query, dataUpdate, dataCreate))

deleteRecord(tableName, query) ==
    Invoke("deleteRecord", tableName, <<query>>, query,
           deleteRecordQuery(query))

countRecords(tableName, where) ==
    Invoke("countRecords", tableName, <<where>>, Default(where, EmptyObj),
           countRecordsQuery(where))

findFirstRecord(tableName, options) ==
    Invoke("findFirstRecord", tableName, <<options>>, EmptyObj,
           findFirstRecordQuery(options))

updateManyRecords(tableName, where, data) ==
    Invoke("updateManyRecords", tableName, <<where, data>>, where,
           updateManyRecordsQuery(where, data))

deleteManyRecords(tableName, where) ==
    Invoke("deleteManyRecords", tableName, <<where>>, where,
           deleteManyRecordsQuery(where))

----------------------------------------------------------------------------
(* The data helpers and the lifecycle operations change disjoint parts of  *)
(* the state, so the next-state relation is given per part: SpecNames,     *)
(* SpecCrud, SpecPage and SpecTx interleave helper invocations, SpecLife   *)
(* the lifecycle operations.  Nothing runs once process.exit has been      *)
(* called.                                                                 *)
(*                                                                         *)
(* The state after the module has loaded: line 59 has run getPrismaClient  *)
(* once, so client 1 is constructed and held by both prismaInstance and    *)
(* prisma; the store is empty; no disconnect has been invoked.             *)

Clients == 1..MaxClients
Invocations == 1..MaxInvocations

Init ==
    /\ db = [d \in DelegateKeys |-> {}]
    /\ last = NoInvocation
    /\ prev = NoInvocation
    /\ prismaInstance = 1
    /\ prisma = 1
    /\ constructed = 1
    /\ discCalls = [c \in Clients |-> 0]
    /\ disconnected = [c \in Clients |-> FALSE]
    /\ inv = [i \in Invocations |-> [pc |-> "idle", kind |-> "none", on |-> 0]]
    /\ exited = FALSE
    /\ lastGot = 1
    /\ lastUsed = 0

----------------------------------------------------------------------------
(* Table-name inputs: the five models and names that are not models.       *)

InvalidNames ==
    {<<"u","s","e","r">>,
     <<"U","s","e","r","s">>,
     <<"f","i","l","e","V","e","r","s","i","o","n">>,
     <<"f","i","l","e","v","e","r","s","i","o","n">>,
     <<>>}

NameInputs == ModelSet \cup InvalidNames

W1 == "k" :> 1
D1 == ("k" :> 1) @@ ("v" :> 1)
Sel1 == "v" :> TRUE

\* Every table-taking helper, over every name input, with fixed small
\* arguments.
NextNames ==
    /\ ~exited
    /\ \E t \in NameInputs :
           \/ \E isArray \in BOOLEAN :
                 insertRecord(t, [isArray |-> isArray, items |-> <<D1>>], <<>>)
           \/ findRecord(t, W1, <<Sel1>>)
           \/ findFirstRecord(t, <<"where" :> W1>>)
           \/ findManyRecords(t, <<("page" :> 1) @@ ("perPage" :> 1)>>)
           \/ countRecords(t, <<W1>>)
           \/ updateRecord(t, W1, "v" :> 1)
           \/ updateManyRecords(t, EmptyObj, "v" :> 1)
           \/ upsertRecord(t, W1, D1, <<>>)
           \/ deleteRecord(t, W1)
           \/ deleteManyRecords(t, EmptyObj)

SpecNames == Init /\ [][NextNames]_vars

----------------------------------------------------------------------------
(* The data helpers over two tables, with every small argument.            *)

CrudTables == {User, FileVersion}

RowObjs == {("k" :> a) @@ ("v" :> b) : a \in Keys, b \in Vals}

RowLists == UNION {[1..n -> RowObjs] : n \in 0..MaxListLen}

UniqueWheres == {"k" :> a : a \in Keys}

UpdateData == DataObjs(Keys, {MaxVal})

CreateData == DataObjs(Keys, {1})

NextCrud ==
    /\ ~exited
    /\ \E t \in CrudTables :
           \/ \E items \in RowLists, s \in {<<>>, <<FALSE>>} :
                 insertRecord(t, [isArray |-> TRUE, items |-> items], s)
           \/ \E d \in RowObjs :
                 insertRecord(t, [isArray |-> FALSE, items |-> <<d>>], <<>>)
           \/ \E w \in UniqueWheres, u \in UpdateData,
                 c \in {<<>>} \cup {<<d>> : d \in CreateData} :
                 upsertRecord(t, w, u, c)
           \/ \E w \in UniqueWheres : deleteRecord(t, w)

SpecCrud == Init /\ [][NextCrud]_vars

----------------------------------------------------------------------------
(* Claims about table-name validation and dispatch *)

\* C1: for every table name that is not exactly one of User, Folder, File,
\* FileVersion, Share, a table-taking helper throws the invalid-model error
\* that names the input and lists the valid models, and no delegate call is
\* issued in that invocation.
C1_InvalidNameRejected ==
    (last.op # "none" /\ last.table \notin {User, Folder, File, FileVersion, Share})
        => /\ last.status = "threw"
           /\ last.error.name = "Error"
           /\ last.error.input = last.table
           /\ last.error.valid = <<User, Folder, File, FileVersion, Share>>
           /\ last.call = NoCall

C1_Witness ==
    /\ last.op = "upsertRecord"
    /\ last.table = <<"u","s","e","r">>
    /\ last.status = "threw"
    /\ last.call = NoCall
    /\ db[<<"u","s","e","r">>] # {}

\* C2: for every table name in the allow-list, a table-taking helper passes
\* validation and issues its call on the client's delegate for that same
\* table.
C2_ValidNameDispatched ==
    (last.op # "none" /\ last.table \in {User, Folder, File, FileVersion, Share})
        => /\ last.error.name \notin {"Error", "TypeError"}
           /\ last.call.method # "none"
           /\ last.call.delegate = lowerFirst(last.table)

----------------------------------------------------------------------------
(* Claims about upsert and batch insert *)

\* C7: upsertRecord called twice in sequence with the same unique filter on
\* a table where the filter initially matches nothing (the created record
\* carrying the filter's key, the update leaving it alone): the first call
\* creates one record from dataCreate, or from dataUpdate when dataCreate is
\* omitted, the second updates it with dataUpdate and does not create, and
\* exactly one record matching the filter exists afterwards.
C7_UpsertTwice ==
    LET w == last.input[1]
        u == last.input[2]
        c == Default(last.input[3], u)
    IN  ( /\ prev.op = "upsertRecord" /\ last.op = "upsertRecord"
          /\ last.table \in {User, Folder, File, FileVersion, Share}
          /\ prev.pre = 0
          /\ IsComplete(c) /\ c["k"] = w["k"]
          /\ (Has(u, "k") => u["k"] = w["k"]) )
        => /\ prev.outcome = "created"
           /\ prev.call.args["create"] = c
           /\ last.outcome = "updated"
           /\ last.call.args["update"] = u
           /\ Cardinality(Matching(TableOf(db, last.table), w)) = 1

\* C8: insertRecord with a list and skip-duplicates true (the default) is
\* idempotent: after the same list is inserted twice each of its records is
\* present exactly once and the second call raises no error; a list goes to
\* createMany with the flag passed through, a single record to create.
C8_BatchInsertIdempotent ==
    /\ ( /\ prev.op = "insertRecord" /\ last.op = "insertRecord"
         /\ last.table \in {User, Folder, File, FileVersion, Share}
         /\ last.input[1].isArray
         /\ Default(last.input[2], TRUE) )
       => /\ prev.status = "ok" /\ last.status = "ok"
          /\ \A i \in 1..Len(last.input[1].items) :
                Cardinality(Matching(TableOf(db, last.table),
                                     "k" :> last.input[1].items[i]["k"])) = 1
    /\ ( /\ last.op = "insertRecord"
         /\ last.table \in {User, Folder, File, FileVersion, Share} )
       => IF last.input[1].isArray
          THEN /\ last.call.method = "createMany"
               /\ last.call.args["skipDuplicates"] = Default(last.input[2], TRUE)
          ELSE last.call.method = "create"

----------------------------------------------------------------------------
(* findManyRecords over every combination of pagination options.           *)

Nums == 0..MaxNum

PageOptions ==
    UNION {[d -> Nums] : d \in SUBSET {"skip", "take", "page", "perPage"}}

FilterOptions == {EmptyObj, ("where" :> W1) @@ ("select" :> Sel1)}

NextPage ==
    /\ ~exited
    /\ \/ \E o \in PageOptions, f \in FilterOptions :
             findManyRecords(User, <<o @@ f>>)
       \/ findManyRecords(User, <<>>)
       \/ \E o \in {EmptyObj, ("page" :> 1) @@ ("perPage" :> 1)} :
             findManyRecords(FileVersion, <<o>>)

SpecPage == Init /\ [][NextPage]_vars

FindManyIssued == last.op = "findManyRecords" /\ last.call.method = "findMany"

Options == Default(last.input[1], EmptyObj)

\* C6: in findManyRecords, whenever the caller supplies both page and
\* perPage, whatever their values and whether or not skip/take are supplied
\* too, the query issued has skip = (page - 1) * perPage and take = perPage,
\* with where/select/orderBy as given.
C6_PagePrecedence ==
    (FindManyIssued /\ Has(Options, "page") /\ Has(Options, "perPage"))
        => /\ Get(last.call.args, "skip")
                = <<(Options["page"] - 1) * Options["perPage"]>>
           /\ Get(last.call.args, "take") = <<Options["perPage"]>>
           /\ Get(last.call.args, "where") = Get(Options, "where")
           /\ Get(last.call.args, "select") = Get(Options, "select")

RawPagination ==
    /\ Get(last.call.args, "skip") = Get(Options, "skip")
    /\ Get(last.call.args, "take") = Get(Options, "take")

\* C9 as claimed: when the page+perPage pair is not supplied, the query
\* issued carries exactly the caller's skip and take (0 included), and no
\* skip or take key for the one omitted.
C9_RawWhenNoPair ==
    (FindManyIssued /\ ~(Has(Options, "page") /\ Has(Options, "perPage")))
        => RawPagination

\* C9 as amended: when the page+perPage pair is not supplied and perPage is
\* omitted or 0, the query issued carries exactly the caller's skip and take
\* (0 included), and no skip or take key for the one omitted.
C9_RawWhenNoPerPage ==
    ( /\ FindManyIssued
      /\ ~(Has(Options, "page") /\ Has(Options, "perPage"))
      /\ ~Truthy(Options, "perPage") )
        => RawPagination

C9_Witness ==
    /\ FindManyIssued
    /\ Has(Options, "page") /\ ~Has(Options, "perPage")
    /\ Get(Options, "skip") = <<0>> /\ Get(Options, "take") = <<0>>
    /\ Get(last.call.args, "skip") = <<0>>
    /\ Get(last.call.args, "take") = <<0>>

----------------------------------------------------------------------------
(* executeTransaction: prisma.$transaction(callback).  The callback is a   *)
(* sequence of creates, each issued either on the transaction client tx    *)
(* (tx.user.create, as in the function's example) or through insertRecord, *)
(* which calls getDelegate and so the module-level prisma.  Writes through *)
(* tx are pending until the callback resolves; a write through prisma      *)
(* commits on its own.  The first failing step rejects the callback and    *)
(* $transaction rolls the pending writes back.                             *)

NoPending == [d \in DelegateKeys |-> {}]

StepResult(ok, error, store, pending) ==
    [ok |-> ok, error |-> error, store |-> store, pending |-> pending]

\* tx.<target>.create({ data })
TxCreate(step, store, pending) ==
    LET d == step.target
        r == PrismaCreate(store[d] \cup pending[d], step.data)
    IN  IF r.status = "ok"
        THEN StepResult(TRUE, NoError, store,
                        [pending EXCEPT ![d] = @ \cup {Row(step.data)}])
        ELSE StepResult(FALSE, r.error, store, pending)

\* await insertRecord(target, data) inside the callback: the insert runs on
\* the module-level prisma, outside the transaction, and sees and changes
\* the committed store only.
HelperCreate(step, store, pending) ==
    LET g == getDelegate(step.target)
    IN  IF g.threw THEN StepResult(FALSE, g.error, store, pending)
        ELSE IF g.delegate = Undefined
        THEN StepResult(FALSE, TypeError, store, pending)
        ELSE LET d == g.delegate
                 q == insertRecordQuery([isArray |-> FALSE,
                                         items |-> <<step.data>>], <<>>)
                 r == ApplyCall(store[d], q.method, q.args)
             IN  IF r.status # "ok"
                 THEN StepResult(FALSE, r.error, store, pending)
                 ELSE StepResult(TRUE, NoError,
                                 [store EXCEPT ![d] = r.rows], pending)

RunStep(step, store, pending) ==
    IF step.via = "tx" THEN TxCreate(step, store, pending)
    ELSE HelperCreate(step, store, pending)

RECURSIVE RunCallback(_, _, _, _)
RunCallback(steps, i, store, pending) ==
    IF i > Len(steps)
    THEN [status |-> "ok", error |-> NoError, succeeded |-> Len(steps),
          store |-> [d \in DelegateKeys |-> store[d] \cup pending[d]]]
    ELSE LET r == RunStep(steps[i], store, pending)
         IN  IF r.ok THEN RunCallback(steps, i + 1, r.store, r.pending)
             ELSE [status |-> "rejected", error |-> r.error,
                   succeeded |-> i - 1, store |-> r.store]

\* succeeded: how many contained operations had succeeded when the unit of
\* work ended.
executeTransaction(steps) ==
    \E r \in {RunCallback(steps, 1, db, NoPending)} :
        /\ db' = r.store
        /\ last' = [op |-> "executeTransaction", table |-> <<>>,
                    input |-> <<steps>>, pre |-> 0, status |-> r.status,
                    error |-> r.error,
                    call |-> [delegate |-> Undefined,
                              method |-> "$transaction", args |-> EmptyObj],
                    outcome |-> "none", succeeded |-> r.succeeded]
        /\ prev' = NoInvocation
        /\ UNCHANGED lifeVars

TxData == {("k" :> a) @@ ("v" :> 1) : a \in Keys}

TxSteps ==
    [via : {"tx"}, target : {lowerFirst(User), lowerFirst(FileVersion)},
     data : TxData]
    \cup [via : {"helper"}, target : {User, FileVersion}, data : TxData]

\* A helper insert of a key the transaction itself holds pending would wait
\* on the callback's own transaction; such callbacks are left out.
WaitsOnItself(steps) ==
    \E i, j \in 1..Len(steps) :
        /\ i < j
        /\ steps[i].via = "tx" /\ steps[j].via = "helper"
        /\ steps[i].target = lowerFirst(steps[j].target)
        /\ steps[i].data["k"] = steps[j].data["k"]

Callbacks ==
    {c \in UNION {[1..n -> TxSteps] : n \in 1..MaxSteps} : ~WaitsOnItself(c)}

NextTx ==
    /\ ~exited
    /\ \E steps \in Callbacks : executeTransaction(steps)

SpecTx == Init /\ [][NextTx]_vars

\* C3: whenever executeTransaction rejects after a contained operation A has
\* succeeded and a later contained operation B has failed, neither A's nor
\* B's effects are visible: the store is as it was before the unit of work,
\* whether the operations were issued on tx or through the CRUD helpers.
C3_FailedUnitLeavesNoTrace ==
    [][ ( /\ last'.op = "executeTransaction"
          /\ last'.status = "rejected"
          /\ last'.succeeded >= 1 )
        => db' = db ]_vars

----------------------------------------------------------------------------
(* The client handle's lifecycle.                                          *)

Signals == {"SIGINT", "SIGTERM"}

\* getPrismaClient(config): the config only parameterises the constructor.
getPrismaClient ==
    /\ ~exited
    /\ IF prismaInstance = 0
       THEN /\ constructed < MaxClients
            /\ constructed' = constructed + 1
            /\ prismaInstance' = constructed + 1
            /\ lastGot' = constructed + 1
       ELSE /\ lastGot' = prismaInstance
            /\ UNCHANGED <<constructed, prismaInstance>>
    /\ UNCHANGED <<prisma, discCalls, disconnected, inv, exited, lastUsed>>
    /\ UNCHANGED dataVars

NextIdle(i) ==
    /\ inv[i].pc = "idle"
    /\ \A j \in Invocations : j < i => inv[j].pc # "idle"

\* disconnectPrismaClient up to its await: the test of prismaInstance and
\* the call of $disconnect on it.  With the slot null the function returns,
\* and a signal handler goes on to process.exit(0).
DisconnectBegin(i, kind) ==
    /\ ~exited
    /\ NextIdle(i)
    /\ IF prismaInstance # 0
       THEN /\ discCalls' = [discCalls EXCEPT ![prismaInstance] = @ + 1]
            /\ inv' = [inv EXCEPT ![i] = [pc |-> "awaiting", kind |-> kind,
                                          on |-> prismaInstance]]
            /\ UNCHANGED exited
       ELSE /\ inv' = [inv EXCEPT ![i] = [pc |-> "done", kind |-> kind,
                                          on |-> 0]]
            /\ exited' = (kind \in Signals)
            /\ UNCHANGED discCalls
    /\ UNCHANGED <<prismaInstance, prisma, constructed, disconnected, lastGot,
                   lastUsed>>
    /\ UNCHANGED dataVars

\* disconnectPrismaClient after its await: $disconnect has completed on the
\* client it was called on, and the slot is set to null.
DisconnectResume(i) ==
    /\ ~exited
    /\ inv[i].pc = "awaiting"
    /\ disconnected' = [disconnected EXCEPT ![inv[i].on] = TRUE]
    /\ prismaInstance' = 0
    /\ inv' = [inv EXCEPT ![i].pc = "done"]
    /\ exited' = (inv[i].kind \in Signals)
    /\ UNCHANGED <<prisma, constructed, discCalls, lastGot, lastUsed>>
    /\ UNCHANGED dataVars

disconnectPrismaClient(i) == DisconnectBegin(i, "direct")

\* beforeExit is emitted when the event loop has nothing left to run.
onBeforeExit(i) ==
    /\ \A j \in Invocations : inv[j].pc # "awaiting"
    /\ DisconnectBegin(i, "beforeExit")

onSIGINT(i) == DisconnectBegin(i, "SIGINT")

onSIGTERM(i) == DisconnectBegin(i, "SIGTERM")

\* executeRawQuery: prisma.$queryRawUnsafe on the module-level prisma.
executeRawQuery ==
    /\ ~exited
    /\ lastUsed' = prisma
    /\ UNCHANGED <<prismaInstance, prisma, constructed, discCalls,
                   disconnected, inv, exited, lastGot>>
    /\ UNCHANGED dataVars

NextLife ==
    \/ getPrismaClient
    \/ executeRawQuery
    \/ \E i \in Invocations :
          \/ disconnectPrismaClient(i)
          \/ onBeforeExit(i)
          \/ onSIGINT(i)
          \/ onSIGTERM(i)
          \/ DisconnectResume(i)

SpecLife == Init /\ [][NextLife]_vars

\* C4: over any interleaving of disconnectPrismaClient invocations (direct
\* calls and the beforeExit, SIGINT and SIGTERM handlers), $disconnect is
\* invoked at most once on a given client instance.
C4_DisconnectAtMostOnce == \A c \in Clients : discCalls[c] <= 1

\* C5: in every reachable state the instance getPrismaClient returned is the
\* module-level prisma the helpers operate on, and the client constructor
\* has been invoked at most once.
C5_SingleSharedHandle ==
    /\ lastGot = prisma
    /\ lastUsed # 0 => lastUsed = lastGot
    /\ constructed <= 1

\* C10: whenever the singleton slot is set to null, $disconnect has
\* completed on the instance it held at that moment.
C10_NullOnlyAfterDisconnect ==
    [][ (prismaInstance # 0 /\ prismaInstance' = 0)
        => disconnected'[prismaInstance] ]_vars

====
